---- MODULE Spec2Model ----
(***************************************************************************)
(* State-machine model of the LAMMPS pair style inv/poly                   *)
(* (src/USER-MISC/pair_inv_poly.cpp, pair_inv_poly.h).                     *)
(*                                                                         *)
(* Numbers.  A C++ double is modelled by an exact rational <<n, d>> with   *)
(* d > 0 in lowest terms; an int table cell is the rational <<n, 1>>.      *)
(* A memory cell that the program has allocated but never written holds    *)
(* Indet: its contents are indeterminate, and every read of such a cell    *)
(* is a nondeterministic choice (see init_one).                            *)
(*                                                                         *)
(* Tables.  The six coefficient tables a2..a12 are the variable a, with    *)
(* a[k] the table a<k>; likewise inv_poly[k] and dinv_poly[k].             *)
(***************************************************************************)
EXTENDS Integers, Sequences, FiniteSets, TLC

VARIABLES
    allocated,      \* Pair::allocated
    setflag,        \* int **setflag
    cutsq,          \* double **cutsq
    cut_global,     \* double cut_global
    cut,            \* double **cut
    sigma,          \* double **sigma
    a,              \* double **a2 .. **a12, a[k] is a<k>
    inv_poly,       \* double **inv_poly2 .. **inv_poly12
    dinv_poly,      \* double **dinv_poly2 .. **dinv_poly12
    offset,         \* double **offset
    offset_flag,    \* Pair::offset_flag
    mix_flag,       \* Pair::mix_flag
    fp,             \* the restart file, a sequence of 4-byte words
    x,              \* atom->x
    f,              \* atom->f
    type,           \* atom->type
    nlocal,         \* atom->nlocal
    newton_pair,    \* force->newton_pair
    list,           \* the neighbor list: list[i] is firstneigh[i]
    evflag,         \* Pair::evflag, set by ev_init
    eflag_either,   \* Pair::eflag_either, set by ev_init
    tally,          \* the calls of ev_tally made by the last compute pass
    single_out,     \* <<itype, jtype, rsq, factor, energy, fforce>> of the last single()
    lastOp,         \* history: the operation that ran last
    lastArgs,       \* history: its arguments
    err,            \* history: the error the last operation ended with, or "none"
    cut_given,      \* history: cut_given[i][j] iff the last coeff that wrote (i,j) had narg = 10
    saved,          \* history: the parameter tables as write_restart saw them
    indet_read,     \* history: the last init_one read a cell that was never written
    phase           \* host: "setup" while commands are read, "run" once Pair::init has begun

tableVars == <<allocated, setflag, cutsq, cut_global, cut, sigma, a, inv_poly,
               dinv_poly, offset, offset_flag, mix_flag, fp>>
atomVars == <<x, f, type, nlocal, newton_pair, list, evflag, eflag_either, tally,
              single_out>>
histVars == <<lastOp, lastArgs, err, cut_given, saved, indet_read, phase>>
vars == <<tableVars, atomVars, histVars>>

----------------------------------------------------------------------------
(* Exact rational arithmetic standing for double arithmetic.               *)

RECURSIVE GCD(_, _)
GCD(m, n) == IF n = 0 THEN m ELSE GCD(n, m % n)

Abs(n) == IF n < 0 THEN -n ELSE n

Max(m, n) == IF m > n THEN m ELSE n

Norm(n, d) ==
    LET g == GCD(Abs(n), Abs(d))
        s == IF d < 0 THEN -1 ELSE 1
    IN  <<s * (n \div g), s * (d \div g)>>

R(n) == <<n, 1>>

Indet == <<0, 0>>

Zero == R(0)

One == R(1)

RAdd(p, q) ==
    LET g == GCD(p[2], q[2])
        l == (p[2] \div g) * q[2]
    IN  Norm(p[1] * (l \div p[2]) + q[1] * (l \div q[2]), l)

RNeg(p) == <<-p[1], p[2]>>

RSub(p, q) == RAdd(p, RNeg(q))

RMul(p, q) ==
    LET g1 == GCD(Abs(p[1]), q[2])
        g2 == GCD(Abs(q[1]), p[2])
    IN  Norm((p[1] \div g1) * (q[1] \div g2), (p[2] \div g2) * (q[2] \div g1))

RInv(p) == IF p[1] < 0 THEN <<-p[2], -p[1]>> ELSE <<p[2], p[1]>>

RDiv(p, q) == RMul(p, RInv(q))

RLt(p, q) == p[1] * q[2] < q[1] * p[2]

\* pow(p, k) for an even k >= 0: a fraction in lowest terms stays in lowest terms
RPow(p, k) == <<p[1] ^ k, p[2] ^ k>>

ISqrt(n) == CHOOSE r \in 0..n : r * r = n

RSqrt(p) == <<ISqrt(p[1]), ISqrt(p[2])>>

----------------------------------------------------------------------------
(* Types and tables.                                                       *)

Types == {1, 2}

ntypes == Cardinality(Types)

KS == {2, 4, 6, 8, 10, 12}

Table(v) == [i \in Types |-> [j \in Types |-> v]]

Fresh == Table(Indet)

FreshK == [k \in KS |-> Fresh]

Put(t, i, j, v) == [t EXCEPT ![i][j] = v]

RECURSIVE PutAll(_, _, _)
PutAll(t, ps, v) ==
    IF ps = {} THEN t
    ELSE LET p == CHOOSE q \in ps : TRUE
         IN  PutAll(Put(t, p[1], p[2], v), ps \ {p}, v)

UpperPairs == {p \in Types \X Types : p[1] <= p[2]}

GEOMETRIC == 0

NoError == "none"

ErrPairStyle == "Illegal pair_style command"

ErrCoeff == "Incorrect args for pair coefficients"

ErrBounds == "Numeric index is out of bounds"

ErrRestart == "Unexpected end of file while reading restart"

----------------------------------------------------------------------------
(* allocate(): every table is created anew; only the upper triangle of     *)
(* setflag is written.                                                     *)

AllocSetflag == [i \in Types |-> [j \in Types |-> IF j >= i THEN Zero ELSE Indet]]

----------------------------------------------------------------------------
(* settings(narg, arg)                                                     *)

\* mutation of SettingsCut: the inner loop starts at j = i + 1
SettingsCut_SkipDiagonal(cg) ==
    [i \in Types |-> [j \in Types |->
        IF j > i /\ setflag[i][j] # Zero THEN cg ELSE cut[i][j]]]

SettingsCut(cg) ==
    [i \in Types |-> [j \in Types |->
        IF j >= i /\ setflag[i][j] # Zero THEN cg ELSE cut[i][j]]]

settings(narg, arg0) ==
    /\ lastOp' = "settings"
    /\ lastArgs' = <<narg, arg0>>
    /\ IF narg # 1
       THEN /\ err' = ErrPairStyle
            /\ UNCHANGED <<cut_global, cut>>
       ELSE /\ err' = NoError
            /\ cut_global' = arg0
            /\ cut' = IF allocated = 1 THEN SettingsCut(arg0) ELSE cut
    /\ UNCHANGED <<allocated, setflag, cutsq, sigma, a, inv_poly, dinv_poly, offset,
                   offset_flag, mix_flag, fp>>
    /\ UNCHANGED atomVars
    /\ UNCHANGED <<cut_given, saved, indet_read, phase>>

----------------------------------------------------------------------------
(* coeff(narg, arg): arg[0], arg[1] are the type ranges ir, jr (each a     *)
(* pair <<lo, hi>> as utils::bounds returns it), then sigma, a2..a12 and,  *)
(* when narg = 10, the cutoff.                                             *)

BoundsOK(r) == \A b \in {r[1], r[2]} : 1 <= b /\ b <= ntypes

\* mutation of CoeffPairs: the inner loop starts at jlo instead of MAX(jlo,i)
CoeffPairs_FromJlo(ilo, ihi, jlo, jhi) == (ilo..ihi) \X (jlo..jhi)

CoeffPairs(ilo, ihi, jlo, jhi) ==
    {p \in (ilo..ihi) \X (jlo..jhi) : p[2] >= Max(jlo, p[1])}

coeff(narg, ir, jr, sigma_one, a_one, cut_arg) ==
    /\ lastOp' = "coeff"
    /\ lastArgs' = <<narg, ir, jr>>
    /\ IF narg < 9 \/ narg > 10
       THEN /\ err' = ErrCoeff
            /\ UNCHANGED <<allocated, setflag, sigma, cut, a, cut_given>>
       ELSE LET setflag0 == IF allocated = 0 THEN AllocSetflag ELSE setflag
                cut_one == IF narg = 10 THEN cut_arg ELSE cut_global
                ps == CoeffPairs(ir[1], ir[2], jr[1], jr[2])
                count == Cardinality(ps)
            IN  /\ allocated' = 1
                /\ IF ~(BoundsOK(ir) /\ BoundsOK(jr))
                   THEN /\ err' = ErrBounds
                        /\ setflag' = setflag0
                        /\ UNCHANGED <<sigma, cut, a, cut_given>>
                   ELSE /\ sigma' = PutAll(sigma, ps, sigma_one)
                        /\ cut' = PutAll(cut, ps, cut_one)
                        /\ a' = [k \in KS |-> PutAll(a[k], ps, a_one[k])]
                        /\ setflag' = PutAll(setflag0, ps, One)
                        /\ cut_given' = PutAll(cut_given, ps, narg = 10)
                        /\ err' = IF count = 0 THEN ErrCoeff ELSE NoError
    /\ UNCHANGED <<cutsq, cut_global, inv_poly, dinv_poly, offset, offset_flag,
                   mix_flag, fp>>
    /\ UNCHANGED atomVars
    /\ UNCHANGED <<saved, indet_read, phase>>

----------------------------------------------------------------------------
(* init_one(i, j), called by the host's Pair::init for every i <= j once   *)
(* every diagonal pair is set.  junk is what the reads of never-written    *)
(* cells of a2..a12 return.                                                 *)

mix_distance(sig1, sig2) == RSqrt(RMul(sig1, sig2))

\* mutation of Mirror: the copy to (j,i) is left out
Mirror_Forgotten(t, i, j, v) == Put(t, i, j, v)

Mirror(t, i, j, v) == Put(Put(t, i, j, v), j, i, v)

ReadCell(v, junk) == IF v = Indet THEN junk ELSE v

InvPoly(ak, sg, k) == RMul(ak, RPow(sg, k))

\* mutation of DinvPoly: the factor of the twelfth-power term is 10
DinvPoly_WrongFactor(ak, sg, k) ==
    RMul(RMul(R(IF k = 12 THEN 10 ELSE k), ak), RPow(sg, k))

DinvPoly(ak, sg, k) == RMul(RMul(R(k), ak), RPow(sg, k))

RatioSum(ratio) ==
    RAdd(RAdd(RAdd(RAdd(RAdd(RPow(ratio, 2), RPow(ratio, 4)), RPow(ratio, 6)),
                   RPow(ratio, 8)), RPow(ratio, 10)), RPow(ratio, 12))

Offset(sg, ct) ==
    IF offset_flag # 0 /\ RLt(Zero, ct) THEN RatioSum(RDiv(sg, ct)) ELSE Zero

HostCutsq(i, j, ct) == Mirror(cutsq, i, j, RMul(ct, ct))

HostAllDiagonalSet == \A t \in Types : setflag[t][t] # Zero /\ setflag[t][t] # Indet

init_one(i, j, junk) ==
    LET unset == setflag[i][j] = Zero
        sg == IF unset THEN mix_distance(sigma[i][i], sigma[j][j]) ELSE sigma[i][j]
        ct == IF unset THEN mix_distance(cut[i][i], cut[j][j]) ELSE cut[i][j]
        ak == [k \in KS |-> ReadCell(a[k][i][j], junk[k])]
    IN  /\ lastOp' = "init_one"
        /\ lastArgs' = <<i, j>>
        /\ err' = NoError
        /\ phase' = "run"
        /\ indet_read' = (\E k \in KS : a[k][i][j] = Indet)
        /\ sigma' = IF unset THEN Put(sigma, i, j, sg) ELSE sigma
        /\ cut' = IF unset THEN Put(cut, i, j, ct) ELSE cut
        /\ inv_poly' = [k \in KS |-> Mirror(inv_poly[k], i, j, InvPoly(ak[k], sg, k))]
        /\ dinv_poly' = [k \in KS |-> Mirror(dinv_poly[k], i, j, DinvPoly(ak[k], sg, k))]
        /\ offset' = Mirror(offset, i, j, Offset(sg, ct))
        /\ cutsq' = HostCutsq(i, j, ct)
        /\ UNCHANGED <<allocated, setflag, cut_global, a, offset_flag, mix_flag, fp>>
        /\ UNCHANGED atomVars
        /\ UNCHANGED <<cut_given, saved>>

----------------------------------------------------------------------------
(* The restart file.  fp is a sequence of 4-byte words: fwrite of an int    *)
(* appends one word, fwrite of a double appends its two halves.  Reading a  *)
(* double back from two words yields the value only when the words are the  *)
(* two halves of one double, in order; any other bytes decode to a value    *)
(* the written data does not determine (Indet).                             *)

IntWords(v) == << <<"int", v>> >>

DoubleWords(v) == << <<"lo", v>>, <<"hi", v>> >>

DecodeInt(w) == IF w[1] = "int" THEN w[2] ELSE Indet

DecodeDouble(w1, w2) ==
    IF w1[1] = "lo" /\ w2[1] = "hi" /\ w1[2] = w2[2] THEN w1[2] ELSE Indet

WriteRestartSettings ==
    DoubleWords(cut_global) \o IntWords(R(offset_flag)) \o IntWords(R(mix_flag))

WriteOnePair(i, j) ==
    IntWords(setflag[i][j]) \o
        (IF setflag[i][j] # Zero
         THEN DoubleWords(sigma[i][j]) \o DoubleWords(cut[i][j])
         ELSE <<>>)

RECURSIVE WritePairs(_, _)
WritePairs(i, j) ==
    IF i > ntypes THEN <<>>
    ELSE IF j > ntypes THEN WritePairs(i + 1, i + 1)
    ELSE WriteOnePair(i, j) \o WritePairs(i, j + 1)

write_restart ==
    /\ fp' = WriteRestartSettings \o WritePairs(1, 1)
    /\ saved' = [setflag |-> setflag, sigma |-> sigma, cut |-> cut, a |-> a]
    /\ lastOp' = "write_restart"
    /\ lastArgs' = <<>>
    /\ err' = NoError
    /\ phase' = "run"
    /\ UNCHANGED <<allocated, setflag, cutsq, cut_global, cut, sigma, a, inv_poly,
                   dinv_poly, offset, offset_flag, mix_flag>>
    /\ UNCHANGED atomVars
    /\ UNCHANGED <<cut_given, indet_read>>

\* the n-th double that read_restart reads for a set pair: sigma, a2..a12, cut
StoreField(st, n, i, j, v) ==
    IF n = 1 THEN [st EXCEPT !.sigma[i][j] = v]
    ELSE IF n = 8 THEN [st EXCEPT !.cut[i][j] = v]
    ELSE [st EXCEPT !.a[2 * (n - 1)][i][j] = v]

RECURSIVE ReadFields(_, _, _, _)
ReadFields(n, i, j, st) ==
    IF n > 8 THEN st
    ELSE IF st.pos > Len(fp) THEN [st EXCEPT !.err = ErrRestart]
    ELSE IF st.pos + 1 > Len(fp)
         THEN [StoreField(st, n, i, j, Indet) EXCEPT !.err = ErrRestart]
    ELSE ReadFields(n + 1, i, j,
             [StoreField(st, n, i, j, DecodeDouble(fp[st.pos], fp[st.pos + 1]))
                 EXCEPT !.pos = st.pos + 2])

ReadOnePair(i, j, st, junkflag) ==
    IF st.pos > Len(fp) THEN [st EXCEPT !.err = ErrRestart]
    ELSE LET v == DecodeInt(fp[st.pos])
             flag == IF v = Indet THEN junkflag ELSE v
             st1 == [st EXCEPT !.pos = st.pos + 1, !.setflag[i][j] = flag]
         IN  IF flag # Zero THEN ReadFields(1, i, j, st1) ELSE st1

RECURSIVE ReadPairs(_, _, _, _)
ReadPairs(i, j, st, junkflag) ==
    IF st.err # NoError \/ i > ntypes THEN st
    ELSE IF j > ntypes THEN ReadPairs(i + 1, i + 1, st, junkflag)
    ELSE ReadPairs(i, j + 1, ReadOnePair(i, j, st, junkflag), junkflag)

SettingsWords == 4

read_restart(junkflag) ==
    LET st0 == [pos |-> SettingsWords + 1, err |-> NoError, setflag |-> AllocSetflag,
                sigma |-> Fresh, cut |-> Fresh, a |-> FreshK]
        st == ReadPairs(1, 1, st0, junkflag)
    IN  /\ Len(fp) >= SettingsWords
        /\ cut_global' = DecodeDouble(fp[1], fp[2])
        /\ offset_flag' = DecodeInt(fp[3])[1]
        /\ mix_flag' = DecodeInt(fp[4])[1]
        /\ allocated' = 1
        /\ setflag' = st.setflag
        /\ sigma' = st.sigma
        /\ cut' = st.cut
        /\ a' = st.a
        /\ err' = st.err
        /\ cutsq' = Fresh
        /\ inv_poly' = FreshK
        /\ dinv_poly' = FreshK
        /\ offset' = Fresh
        /\ lastOp' = "read_restart"
        /\ lastArgs' = <<>>
        /\ phase' = "restarted"
        /\ UNCHANGED fp
        /\ UNCHANGED atomVars
        /\ UNCHANGED <<cut_given, saved, indet_read>>

----------------------------------------------------------------------------
(* compute(eflag, vflag).  Atoms are numbered from 0 as in the code; the    *)
(* first nlocal are owned, the rest are ghosts.  A neighbor entry is        *)
(* <<sb, j>>: the special-bond bits and the atom index packed in one int.   *)

ilist == [ii \in 1..nlocal |-> ii - 1]

special_lj == [sb \in 0..3 |-> CASE sb = 0 -> One [] sb = 1 -> Zero
                                 [] sb = 2 -> <<1, 2>> [] sb = 3 -> One]

sbmask(e) == e[1]

NeighMask(e) == e[2]

\* ev_init(eflag, vflag): the value it gives evflag
EvInit(eflag, vflag) == IF eflag # 0 \/ vflag # 0 THEN 1 ELSE 0

VAdd(u, v) == <<RAdd(u[1], v[1]), RAdd(u[2], v[2]), RAdd(u[3], v[3])>>

VSub(u, v) == <<RSub(u[1], v[1]), RSub(u[2], v[2]), RSub(u[3], v[3])>>

VScale(u, c) == <<RMul(u[1], c), RMul(u[2], c), RMul(u[3], c)>>

Rsq(del) == RAdd(RAdd(RMul(del[1], del[1]), RMul(del[2], del[2])), RMul(del[3], del[3]))

\* mutation of InsideCutoff: the comparison is <=
InsideCutoff_Inclusive(rsq, itype, jtype) == ~RLt(cutsq[itype][jtype], rsq)

InsideCutoff(rsq, itype, jtype) == RLt(rsq, cutsq[itype][jtype])

\* r2inv, r4inv, .., r12inv by repeated multiplication
Ladder(rsq) ==
    LET r2inv == RDiv(One, rsq)
        r4inv == RMul(r2inv, r2inv)
        r6inv == RMul(r4inv, r2inv)
        r8inv == RMul(r6inv, r2inv)
        r10inv == RMul(r8inv, r2inv)
        r12inv == RMul(r10inv, r2inv)
    IN  [k \in KS |-> CASE k = 2 -> r2inv [] k = 4 -> r4inv [] k = 6 -> r6inv
                        [] k = 8 -> r8inv [] k = 10 -> r10inv [] k = 12 -> r12inv]

PolySum(tab, itype, jtype, rinv) ==
    RAdd(RAdd(RAdd(RAdd(RAdd(RMul(tab[2][itype][jtype], rinv[2]),
                             RMul(tab[4][itype][jtype], rinv[4])),
                        RMul(tab[6][itype][jtype], rinv[6])),
                   RMul(tab[8][itype][jtype], rinv[8])),
              RMul(tab[10][itype][jtype], rinv[10])),
         RMul(tab[12][itype][jtype], rinv[12]))

ComputeFpair(itype, jtype, rsq, factor) ==
    LET rinv == Ladder(rsq)
        forceinvpoly == PolySum(dinv_poly, itype, jtype, rinv)
    IN  RMul(RMul(factor, forceinvpoly), rinv[2])

ComputeEvdwl(itype, jtype, rsq, factor) ==
    LET rinv == Ladder(rsq)
    IN  RMul(RSub(PolySum(inv_poly, itype, jtype, rinv), offset[itype][jtype]), factor)

\* mutation of ReactionApplied: newton_pair is not consulted
ReactionApplied_OwnedOnly(j) == j < nlocal

ReactionApplied(j) == newton_pair # 0 \/ j < nlocal

\* one iteration of the inner loop: st = [f, tally, evdwl], atom i, entry e
ComputeEntry(st, i, e, eflag, ev) ==
    LET itype == type[i]
        factor == special_lj[sbmask(e)]
        j == NeighMask(e)
        del == VSub(x[i], x[j])
        rsq == Rsq(del)
        jtype == type[j]
    IN  IF InsideCutoff(rsq, itype, jtype)
        THEN LET fpair == ComputeFpair(itype, jtype, rsq, factor)
                 df == VScale(del, fpair)
                 f1 == [st.f EXCEPT ![i] = VAdd(@, df)]
                 f2 == IF ReactionApplied(j) THEN [f1 EXCEPT ![j] = VSub(@, df)] ELSE f1
                 evdwl == IF eflag # 0 THEN ComputeEvdwl(itype, jtype, rsq, factor)
                          ELSE st.evdwl
             IN  [f |-> f2,
                  evdwl |-> evdwl,
                  tally |-> IF ev # 0
                            THEN Append(st.tally,
                                        [i |-> i, j |-> j, nlocal |-> nlocal,
                                         newton_pair |-> newton_pair, evdwl |-> evdwl,
                                         ecoul |-> Zero, fpair |-> fpair, del |-> del])
                            ELSE st.tally]
        ELSE st

RECURSIVE ComputeLoop(_, _, _, _, _)
ComputeLoop(st, ii, jj, eflag, ev) ==
    IF ii > Len(ilist) THEN st
    ELSE IF jj > Len(list[ilist[ii]]) THEN ComputeLoop(st, ii + 1, 1, eflag, ev)
    ELSE ComputeLoop(ComputeEntry(st, ilist[ii], list[ilist[ii]][jj], eflag, ev),
                     ii, jj + 1, eflag, ev)

compute(eflag, vflag) ==
    LET ev == EvInit(eflag, vflag)
        st == ComputeLoop([f |-> f, tally |-> <<>>, evdwl |-> Zero], 1, 1, eflag, ev)
    IN  /\ evflag' = ev
        /\ eflag_either' = eflag
        /\ f' = st.f
        /\ tally' = st.tally
        /\ lastOp' = "compute"
        /\ lastArgs' = <<eflag, vflag>>
        /\ err' = NoError
        /\ phase' = "done"
        /\ UNCHANGED tableVars
        /\ UNCHANGED <<x, type, nlocal, newton_pair, list, single_out>>
        /\ UNCHANGED <<cut_given, saved, indet_read>>

----------------------------------------------------------------------------
(* single(i, j, itype, jtype, rsq, factor_coul, factor_lj, fforce)          *)

SingleFforce(itype, jtype, rsq, factor_lj) ==
    LET factor == factor_lj
        r2inv == RDiv(One, rsq)
        r4inv == RMul(r2inv, r2inv)
        r6inv == RMul(r4inv, r2inv)
        r8inv == RMul(r6inv, r2inv)
        r10inv == RMul(r8inv, r2inv)
        r12inv == RMul(r10inv, r2inv)
        forceinvpoly ==
            RAdd(RAdd(RAdd(RAdd(RAdd(RMul(dinv_poly[2][itype][jtype], r2inv),
                                     RMul(dinv_poly[4][itype][jtype], r4inv)),
                                RMul(dinv_poly[6][itype][jtype], r6inv)),
                           RMul(dinv_poly[8][itype][jtype], r8inv)),
                      RMul(dinv_poly[10][itype][jtype], r10inv)),
                 RMul(dinv_poly[12][itype][jtype], r12inv))
    IN  RMul(RMul(factor, forceinvpoly), r2inv)

\* mutation of SinglePhi: the offset is not subtracted
SinglePhi_Unshifted(itype, jtype, rsq, factor_lj) ==
    RMul(factor_lj, PolySum(inv_poly, itype, jtype, Ladder(rsq)))

SinglePhi(itype, jtype, rsq, factor_lj) ==
    LET factor == factor_lj
        r2inv == RDiv(One, rsq)
        r4inv == RMul(r2inv, r2inv)
        r6inv == RMul(r4inv, r2inv)
        r8inv == RMul(r6inv, r2inv)
        r10inv == RMul(r8inv, r2inv)
        r12inv == RMul(r10inv, r2inv)
        phi ==
            RSub(RAdd(RAdd(RAdd(RAdd(RAdd(RMul(inv_poly[2][itype][jtype], r2inv),
                                          RMul(inv_poly[4][itype][jtype], r4inv)),
                                     RMul(inv_poly[6][itype][jtype], r6inv)),
                                RMul(inv_poly[8][itype][jtype], r8inv)),
                           RMul(inv_poly[10][itype][jtype], r10inv)),
                      RMul(inv_poly[12][itype][jtype], r12inv)),
                 offset[itype][jtype])
    IN  RMul(factor, phi)

single(itype, jtype, rsq, factor_lj) ==
    /\ single_out' = [itype |-> itype, jtype |-> jtype, rsq |-> rsq,
                      factor_lj |-> factor_lj,
                      fforce |-> SingleFforce(itype, jtype, rsq, factor_lj),
                      energy |-> SinglePhi(itype, jtype, rsq, factor_lj)]
    /\ lastOp' = "single"
    /\ lastArgs' = <<itype, jtype>>
    /\ err' = NoError
    /\ phase' = "probed"
    /\ UNCHANGED tableVars
    /\ UNCHANGED <<x, f, type, nlocal, newton_pair, list, evflag, eflag_either, tally>>
    /\ UNCHANGED <<cut_given, saved, indet_read>>

----------------------------------------------------------------------------
(* Inputs.                                                                 *)

\* how far above ntypes the range bounds tried go
RangeSlack == 1

\* the type ranges tried: "n" for n in 0..ntypes+RangeSlack, and "*"
Ranges == {<<n, n>> : n \in 0..(ntypes + RangeSlack)} \cup {<<1, ntypes>>}

\* <<narg, ir, jr, cutoff>>: 9 arguments (no cutoff), 10 arguments, and a wrong count
CoeffArgs(cuts) ==
    ({9} \X Ranges \X Ranges \X {Indet})
        \cup ({10} \X Ranges \X Ranges \X cuts)
        \cup ({8, 11} \X {<<1, 1>>} \X {<<1, 1>>} \X {Indet})

AOne(v2, v4, v6, v8, v10, v12) ==
    [k \in KS |-> R(CASE k = 2 -> v2 [] k = 4 -> v4 [] k = 6 -> v6
                      [] k = 8 -> v8 [] k = 10 -> v10 [] k = 12 -> v12)]

AVals == {AOne(1, 1, 1, 1, 1, 1), AOne(2, 0, 1, 0, 0, -1)}

SigmaVals == {R(1), R(4)}

CutVals == {R(1), R(4)}

NoAtoms == <<>>

InitPair ==
    /\ allocated = 0
    /\ setflag = Fresh
    /\ cutsq = Fresh
    /\ cut = Fresh
    /\ sigma = Fresh
    /\ a = FreshK
    /\ inv_poly = FreshK
    /\ dinv_poly = FreshK
    /\ offset = Fresh
    /\ cut_global \in CutVals
    /\ offset_flag \in {0, 1}
    /\ mix_flag = GEOMETRIC
    /\ fp = <<>>
    /\ lastOp = "settings"
    /\ lastArgs = <<1, cut_global>>
    /\ err = NoError
    /\ cut_given = Table(FALSE)
    /\ saved = <<>>
    /\ indet_read = FALSE
    /\ phase = "setup"

InitNoAtoms ==
    /\ x = NoAtoms
    /\ f = NoAtoms
    /\ type = NoAtoms
    /\ nlocal = 0
    /\ newton_pair = 1
    /\ list = NoAtoms
    /\ evflag = 0
    /\ eflag_either = 0
    /\ tally = <<>>
    /\ single_out = <<>>

Init == InitPair /\ InitNoAtoms

DoSettings == \E narg \in {1, 2}, v \in CutVals : settings(narg, v)

DoCoeff ==
    \E g \in CoeffArgs(CutVals), s \in {R(1)}, av \in {AOne(1, 1, 1, 1, 1, 1)} :
        coeff(g[1], g[2], g[3], s, av, g[4])

Next == DoSettings \/ DoCoeff

Spec == Init /\ [][Next]_vars

----------------------------------------------------------------------------
(* Claims about the configuration commands (specification Spec).           *)

\* C2 (as stated): a successful settings call sets cut[i][j] to the new
\* cut_global exactly for the configured pairs that were given no explicit
\* cutoff; a configured pair that was given an explicit cutoff keeps it.
C2_ExplicitCutoffKept ==
    [][(lastOp' = "settings" /\ err' = NoError) =>
          \A p \in UpperPairs :
              setflag[p[1]][p[2]] = One =>
                  cut'[p[1]][p[2]] = IF cut_given[p[1]][p[2]]
                                     THEN cut[p[1]][p[2]]
                                     ELSE cut_global']_vars

\* C2 (amended): a successful settings call sets cut_global
\* to its argument and sets cut[i][j] to it for every configured pair i <= j,
\* whether or not that pair was given an explicit cutoff; every other entry
\* of cut is left as it was.
C2_EveryConfiguredCutoffReset ==
    [][(lastOp' = "settings" /\ err' = NoError) =>
          /\ cut_global' = lastArgs'[2]
          /\ \A i \in Types, j \in Types :
                cut'[i][j] = IF i <= j /\ setflag[i][j] = One
                             THEN cut_global'
                             ELSE cut[i][j]]_vars

\* C2 witness: settings has run over tables holding a pair configured with an
\* explicit cutoff and a pair that is not configured.
C2_Witness ==
    /\ lastOp = "settings"
    /\ err = NoError
    /\ \E p \in UpperPairs, q \in UpperPairs :
          /\ setflag[p[1]][p[2]] = One
          /\ cut_given[p[1]][p[2]]
          /\ cut[p[1]][p[2]] = cut_global
          /\ setflag[q[1]][q[2]] = Zero
          /\ cut[q[1]][q[2]] = Indet

\* The arguments of a coeff call that the claim says must be rejected: a range
\* bound below 1 or above ntypes, or no pair i <= j inside the ranges.
C3_ArgsRejected(ir, jr) ==
    \/ \E b \in {ir[1], ir[2], jr[1], jr[2]} : b < 1 \/ b > ntypes
    \/ ~ \E i \in ir[1]..ir[2], j \in jr[1]..jr[2] : i <= j

\* C3: a coeff call whose range bound is below 1 or above ntypes, or whose
\* ranges hold no pair i <= j, ends with an error; and a coeff call that
\* ends with an error leaves sigma, cut and a2..a12 as they were and leaves
\* every pair configured or not configured as it was.
C3_FailingCoeffChangesNothing ==
    [][lastOp' = "coeff" =>
          /\ (lastArgs'[1] \in {9, 10} /\ C3_ArgsRejected(lastArgs'[2], lastArgs'[3]))
                => err' # NoError
          /\ err' # NoError =>
                /\ sigma' = sigma
                /\ cut' = cut
                /\ a' = a
                /\ \A i \in Types, j \in Types :
                      (setflag'[i][j] = One) <=> (setflag[i][j] = One)]_vars

\* C3 witness: after a successful call configured (1,1), the call with ranges
\* 2 and 1, which hold no pair i <= j, has failed.
C3_Witness ==
    /\ lastOp = "coeff"
    /\ lastArgs = <<9, <<2, 2>>, <<1, 1>>>>
    /\ err = ErrCoeff
    /\ setflag[1][1] = One
    /\ sigma[1][1] = R(1)
    /\ setflag[2][2] = Zero

----------------------------------------------------------------------------
(* Specification of the resolve step: pairs are configured with nine       *)
(* arguments, then the host runs init_one over the pairs.                  *)

ValidRanges == {r \in Ranges : BoundsOK(r)}

InitCoeffArgs == {9} \X ValidRanges \X ValidRanges \X {Indet}

DoCoeffBeforeInit ==
    /\ phase = "setup"
    /\ \E g \in InitCoeffArgs, s \in SigmaVals, av \in AVals :
          coeff(g[1], g[2], g[3], s, av, g[4])

DoInitOne ==
    /\ allocated = 1
    /\ HostAllDiagonalSet
    /\ \E p \in UpperPairs, junk \in AVals : init_one(p[1], p[2], junk)

NextInit == DoCoeffBeforeInit \/ DoInitOne

SpecInit == Init /\ [][NextInit]_vars

----------------------------------------------------------------------------
(* Claims about init_one (specification SpecInit).                         *)

\* the sum of a function's values over k = 2, 4, .., 12
SumK(g) == RAdd(RAdd(RAdd(RAdd(RAdd(g[2], g[4]), g[6]), g[8]), g[10]), g[12])

\* C4 (as stated): after init_one(i, j), sigma, cut, the six inv_poly, the
\* six dinv_poly and offset each hold at (j,i) the value they hold at (i,j).
C4_AllTablesMirrored ==
    lastOp = "init_one" =>
        LET i == lastArgs[1]
            j == lastArgs[2]
        IN  /\ sigma[j][i] = sigma[i][j]
            /\ cut[j][i] = cut[i][j]
            /\ \A k \in KS : inv_poly[k][j][i] = inv_poly[k][i][j]
            /\ \A k \in KS : dinv_poly[k][j][i] = dinv_poly[k][i][j]
            /\ offset[j][i] = offset[i][j]

\* C4 (amended): after init_one(i, j), the six inv_poly, the six dinv_poly
\* and offset have been written at (i,j) and hold the same value at (j,i);
\* sigma and cut are kept in the upper triangle only: no operation writes
\* sigma[j][i] or cut[j][i] for i < j.
C4_DerivedTablesMirrored ==
    /\ lastOp = "init_one" =>
          LET i == lastArgs[1]
              j == lastArgs[2]
          IN  /\ \A k \in KS : /\ inv_poly[k][i][j] # Indet
                               /\ inv_poly[k][j][i] = inv_poly[k][i][j]
                               /\ dinv_poly[k][i][j] # Indet
                               /\ dinv_poly[k][j][i] = dinv_poly[k][i][j]
              /\ offset[i][j] # Indet
              /\ offset[j][i] = offset[i][j]
    /\ \A i \in Types, j \in Types :
          i < j => sigma[j][i] = Indet /\ cut[j][i] = Indet

\* C4 witness: init_one has run for the cross pair (1,2).
C4_Witness ==
    /\ lastOp = "init_one"
    /\ lastArgs = <<1, 2>>
    /\ inv_poly[12][2][1] = inv_poly[12][1][2]
    /\ inv_poly[12][1][2] # Zero
    /\ sigma[1][2] # Indet

\* C5: after init_one(i, j) of a configured pair, offset[i][j] is the
\* unshifted potential at r = cut, the sum over k of a_k * (sigma/cut)^k,
\* when offset_flag is set and cut > 0, and 0 otherwise.
C5_OffsetIsPotentialAtCutoff ==
    (lastOp = "init_one" /\ setflag[lastArgs[1]][lastArgs[2]] = One) =>
        LET i == lastArgs[1]
            j == lastArgs[2]
            term == [k \in KS |->
                        RMul(a[k][i][j], RPow(RDiv(sigma[i][j], cut[i][j]), k))]
        IN  offset[i][j] = IF offset_flag # 0 /\ RLt(Zero, cut[i][j])
                           THEN SumK(term)
                           ELSE Zero

\* C10: when both diagonal pairs are configured, init_one of an unset cross
\* pair i < j reads no table cell that was never written.
C10_NoIndeterminateRead ==
    (/\ lastOp = "init_one"
     /\ lastArgs[1] < lastArgs[2]
     /\ setflag[lastArgs[1]][lastArgs[2]] = Zero
     /\ \A t \in {lastArgs[1], lastArgs[2]} : setflag[t][t] = One)
        => ~indet_read

----------------------------------------------------------------------------
(* Specification of the restart round trip: pairs are configured, the       *)
(* tables are written to the restart file, and a run reads the file back.   *)

DoCoeffBeforeRestart ==
    /\ phase = "setup"
    /\ \E g \in InitCoeffArgs \cup ({10} \X ValidRanges \X ValidRanges \X {R(1)}),
          av \in AVals :
          coeff(g[1], g[2], g[3], R(4), av, g[4])

DoWriteRestart == allocated = 1 /\ phase # "restarted" /\ write_restart

DoReadRestart == phase = "run" /\ \E junkflag \in {Zero, One} : read_restart(junkflag)

NextRestart == DoCoeffBeforeRestart \/ DoWriteRestart \/ DoReadRestart

SpecRestart == Init /\ [][NextRestart]_vars

\* C1: after write_restart and then read_restart of the bytes written, the
\* read has succeeded, every pair that was configured is configured with
\* the sigma, cut and a2..a12 it had, and every pair that was unset is unset.
C1_RestartRoundTrip ==
    lastOp = "read_restart" =>
        /\ err = NoError
        /\ \A p \in UpperPairs :
              LET i == p[1]
                  j == p[2]
              IN  IF saved.setflag[i][j] = Zero
                  THEN setflag[i][j] = Zero
                  ELSE /\ setflag[i][j] = saved.setflag[i][j]
                       /\ sigma[i][j] = saved.sigma[i][j]
                       /\ cut[i][j] = saved.cut[i][j]
                       /\ \A k \in KS : a[k][i][j] = saved.a[k][i][j]

----------------------------------------------------------------------------
(* Specification of the force kernel: every pair is configured, the host    *)
(* resolves the pairs, hands over atoms and a neighbor list, and runs a     *)
(* compute pass; single is then called for one pair.                        *)

Half == <<1, 2>>

\* <<sigma, a2..a12, cutoff>>
KernelParams ==
    {<<R(1), AOne(1, 0, 0, 0, 0, 0), R(2)>>,
     <<R(2), AOne(1, 1, 1, 1, 1, 1), R(2)>>,
     <<R(1), AOne(2, 0, 1, 0, 0, -1), R(1)>>}

\* "* *" and "1 2"
KernelRanges == {<<<<1, ntypes>>, <<1, ntypes>>>>, <<<<1, 1>>, <<2, 2>>>>}

DoCoeffKernel ==
    /\ phase = "setup"
    /\ \E rg \in KernelRanges, ps \in KernelParams :
          coeff(10, rg[1], rg[2], ps[1], ps[2], ps[3])

DoInitOneKernel ==
    /\ phase \in {"setup", "run"}
    /\ allocated = 1
    /\ HostAllDiagonalSet
    /\ \E p \in UpperPairs : init_one(p[1], p[2], AOne(0, 0, 0, 0, 0, 0))

Vec(v1, v2, v3) == <<R(v1), R(v2), R(v3)>>

Atoms == 0..2

TypeChoices == {[n \in Atoms |-> IF n = 1 THEN 2 ELSE 1],
                [n \in Atoms |-> IF n = 2 THEN 1 ELSE 2]}

PosChoices ==
    {[n \in Atoms |-> CASE n = 0 -> Vec(0, 0, 0) [] n = 1 -> Vec(1, 0, 0)
                        [] n = 2 -> Vec(1, 1, 0)],
     [n \in Atoms |-> CASE n = 0 -> Vec(0, 0, 1) [] n = 1 -> Vec(0, 2, 1)
                        [] n = 2 -> Vec(1, 1, 1)],
     [n \in Atoms |-> CASE n = 0 -> Vec(1, 2, 0) [] n = 1 -> Vec(1, 2, 1)
                        [] n = 2 -> Vec(0, 2, 2)]}

ListChoices ==
    {[n \in 0..1 |-> IF n = 0 THEN << <<0, 1>>, <<2, 2>> >> ELSE << <<0, 2>> >>],
     [n \in 0..1 |-> IF n = 0 THEN << <<3, 2>> >> ELSE << <<0, 0>>, <<1, 2>> >>]}

ForceChoices ==
    {[n \in Atoms |-> Vec(0, 0, 0)],
     [n \in Atoms |-> <<R(n), R(-1), Half>>]}

AllResolved == \A p \in UpperPairs : cutsq[p[1]][p[2]] # Indet

\* the host between force evaluations: atoms, neighbor list and forces so far
HostStep ==
    /\ phase = "run"
    /\ AllResolved
    /\ x' \in PosChoices
    /\ type' \in TypeChoices
    /\ list' \in ListChoices
    /\ f' \in ForceChoices
    /\ newton_pair' \in {0, 1}
    /\ nlocal' = 2
    /\ tally' = <<>>
    /\ single_out' = <<>>
    /\ UNCHANGED <<evflag, eflag_either>>
    /\ lastOp' = "host"
    /\ lastArgs' = <<>>
    /\ err' = NoError
    /\ phase' = "ready"
    /\ UNCHANGED tableVars
    /\ UNCHANGED <<cut_given, saved, indet_read>>

DoCompute ==
    /\ phase = "ready"
    /\ \E eflag \in {0, 1}, vflag \in {0, 1} : compute(eflag, vflag)

DoSingle ==
    /\ phase = "done"
    /\ \E itype \in Types, jtype \in Types, rsq \in {R(1), R(2)},
          factor_lj \in {Half} :
          single(itype, jtype, rsq, factor_lj)

NextKernel == DoCoeffKernel \/ DoInitOneKernel \/ HostStep \/ DoCompute \/ DoSingle

InitKernel == Init /\ cut_global = R(1)

SpecKernel == InitKernel /\ [][NextKernel]_vars

----------------------------------------------------------------------------
(* Claims about the force kernel (specification SpecKernel).               *)

\* the neighbor entries <<i, <<sb, j>>>> of the owned atoms, in loop order
RECURSIVE EntriesFrom(_)
EntriesFrom(i) ==
    IF i >= nlocal THEN <<>>
    ELSE [jj \in 1..Len(list[i]) |-> <<i, list[i][jj]>>] \o EntriesFrom(i + 1)

EntryI(en) == en[1]

EntryJ(en) == en[2][2]

EntryFactor(en) == special_lj[en[2][1]]

EntryDel(en) == VSub(x[EntryI(en)], x[EntryJ(en)])

EntryRsq(en) ==
    LET d == EntryDel(en)
    IN  RAdd(RAdd(RPow(d[1], 2), RPow(d[2], 2)), RPow(d[3], 2))

EntryInside(en) == RLt(EntryRsq(en), cutsq[type[EntryI(en)]][type[EntryJ(en)]])

InsideEntries == SelectSeq(EntriesFrom(0), EntryInside)

\* the configured parameters of the pair of types of an entry
EntryLo(en) == IF type[EntryI(en)] <= type[EntryJ(en)] THEN type[EntryI(en)]
               ELSE type[EntryJ(en)]

EntryHi(en) == IF type[EntryI(en)] <= type[EntryJ(en)] THEN type[EntryJ(en)]
               ELSE type[EntryI(en)]

\* sum over k of w(k) * a_k * sigma^k * (1/rsq)^(k/2), w(k) = k or 1
EntryPoly(en, weighted) ==
    LET lo == EntryLo(en)
        hi == EntryHi(en)
        r2 == RInv(EntryRsq(en))
    IN  SumK([k \in KS |->
                 RMul(RMul(R(IF weighted THEN k ELSE 1), a[k][lo][hi]),
                      RMul(RPow(sigma[lo][hi], k), RPow(r2, k \div 2)))])

EntryForcePerDistance(en) ==
    RMul(RMul(EntryFactor(en), EntryPoly(en, TRUE)), RInv(EntryRsq(en)))

EntryEnergy(en) ==
    RMul(EntryFactor(en),
         RSub(EntryPoly(en, FALSE), offset[type[EntryI(en)]][type[EntryJ(en)]]))

\* C6: in a compute pass over configured and resolved pairs, the fpair
\* handed to ev_tally for an entry inside the cutoff is
\* factor * (sum_k k a_k sigma^k (1/rsq)^(k/2)) * (1/rsq), and when energy is
\* requested the evdwl handed over is
\* factor * (sum_k a_k sigma^k (1/rsq)^(k/2) - offset).
C6_KernelFormulas ==
    (lastOp = "compute" /\ evflag # 0) =>
        /\ Len(tally) = Len(InsideEntries)
        /\ \A n \in 1..Len(tally) :
              /\ tally[n].fpair = EntryForcePerDistance(InsideEntries[n])
              /\ eflag_either # 0 => tally[n].evdwl = EntryEnergy(InsideEntries[n])

\* C6 witness: the scenario sigma = 1, a2 = 1, other a_k = 0, r = 1 without
\* shift: energy 1 and force per distance 2.
C6_Witness ==
    /\ lastOp = "compute"
    /\ eflag_either = 1
    /\ offset_flag = 0
    /\ \E n \in 1..Len(tally) :
          LET en == InsideEntries[n]
          IN  /\ EntryRsq(en) = One
              /\ EntryFactor(en) = One
              /\ sigma[EntryLo(en)][EntryHi(en)] = One
              /\ \A k \in KS : a[k][EntryLo(en)][EntryHi(en)] = IF k = 2 THEN One ELSE Zero
              /\ tally[n].evdwl = R(1)
              /\ tally[n].fpair = R(2)

RECURSIVE VSumSeq(_)
VSumSeq(vs) == IF vs = <<>> THEN <<Zero, Zero, Zero>> ELSE VAdd(Head(vs), VSumSeq(Tail(vs)))

EntryForce(en) == VScale(EntryDel(en), EntryForcePerDistance(en))

\* the forces added to atom n by its own inside entries
ActionOn(n) ==
    LET mine(en) == EntryI(en) = n
    IN  VSumSeq([m \in 1..Len(SelectSeq(InsideEntries, mine)) |->
                    EntryForce(SelectSeq(InsideEntries, mine)[m])])

\* the forces subtracted from atom n as the neighbor of an inside entry
ReactionOn(n) ==
    LET his(en) == EntryJ(en) = n /\ (newton_pair # 0 \/ n < nlocal)
    IN  VSumSeq([m \in 1..Len(SelectSeq(InsideEntries, his)) |->
                    EntryForce(SelectSeq(InsideEntries, his)[m])])

TotalForce(ff) == VSumSeq([m \in 1..Cardinality(Atoms) |-> ff[m - 1]])

\* C7: a compute pass adds fpair * del to f[i] for every entry (i, j) inside
\* the cutoff and subtracts it from f[j] exactly when newton_pair is set or
\* j < nlocal; with newton_pair set the sum of the forces over all atoms is
\* the same after the pass as before it.
C7_NewtonAccounting ==
    [][lastOp' = "compute" =>
          /\ \A n \in Atoms : f'[n] = VSub(VAdd(f[n], ActionOn(n)), ReactionOn(n))
          /\ newton_pair # 0 => TotalForce(f') = TotalForce(f)]_vars

\* C7 witness: a pass with newton_pair off has changed an owned atom's force
\* through an entry whose neighbor is a ghost, and the ghost's force is as
\* the host left it.
C7_Witness ==
    /\ lastOp = "compute"
    /\ newton_pair = 0
    /\ \E m \in 1..Len(InsideEntries) :
          /\ EntryJ(InsideEntries[m]) >= nlocal
          /\ EntryForce(InsideEntries[m]) # <<Zero, Zero, Zero>>
    /\ f[2] \in {Vec(0, 0, 0), <<R(2), R(-1), Half>>}
    /\ f[0] \notin {Vec(0, 0, 0), <<R(0), R(-1), Half>>}

\* C8: a compute pass hands exactly the entries with rsq < cutsq to ev_tally,
\* each once and in order, when evflag is set, and none when it is not; an
\* entry with rsq >= cutsq changes no force: an atom that is in no entry
\* inside the cutoff keeps its force.
C8_StrictCutoff ==
    [][lastOp' = "compute" =>
          /\ Len(tally') = IF evflag' # 0 THEN Len(InsideEntries) ELSE 0
          /\ \A n \in 1..Len(tally') :
                /\ tally'[n].i = EntryI(InsideEntries[n])
                /\ tally'[n].j = EntryJ(InsideEntries[n])
                /\ tally'[n].del = EntryDel(InsideEntries[n])
                /\ tally'[n].ecoul = Zero
          /\ \A n \in Atoms :
                (\A m \in 1..Len(InsideEntries) :
                    EntryI(InsideEntries[m]) # n /\ EntryJ(InsideEntries[m]) # n)
                    => f'[n] = f[n]]_vars

\* C8 witness: a pass with tallying on in which one entry has rsq equal to
\* cutsq and was not tallied and another has rsq < cutsq and was tallied.
C8_Witness ==
    /\ lastOp = "compute"
    /\ evflag = 1
    /\ Len(tally) = 1
    /\ \E m \in 1..Len(EntriesFrom(0)) :
          LET en == EntriesFrom(0)[m]
          IN  EntryRsq(en) = cutsq[type[EntryI(en)]][type[EntryJ(en)]]

\* C9: when single is called with the types, rsq and factor of an entry that
\* the last compute pass evaluated, it returns the fpair that pass handed to
\* ev_tally and, when energy was requested, the evdwl.
C9_SingleAgreesWithCompute ==
    (lastOp = "single" /\ evflag # 0) =>
        \A n \in 1..Len(tally) :
            LET en == InsideEntries[n]
            IN  (/\ single_out.itype = type[EntryI(en)]
                 /\ single_out.jtype = type[EntryJ(en)]
                 /\ single_out.rsq = EntryRsq(en)
                 /\ single_out.factor_lj = EntryFactor(en))
                    => /\ single_out.fforce = tally[n].fpair
                       /\ eflag_either # 0 => single_out.energy = tally[n].evdwl

\* C9 witness: single has been called with the arguments of a tallied entry
\* of a pass that computed energy, with a shifted potential.
C9_Witness ==
    /\ lastOp = "single"
    /\ eflag_either = 1
    /\ offset_flag = 1
    /\ \E n \in 1..Len(tally) :
          LET en == InsideEntries[n]
          IN  /\ single_out.itype = type[EntryI(en)]
              /\ single_out.jtype = type[EntryJ(en)]
              /\ single_out.itype # single_out.jtype
              /\ single_out.rsq = EntryRsq(en)
              /\ single_out.factor_lj = EntryFactor(en)
              /\ single_out.energy = tally[n].evdwl
              /\ single_out.fforce # Zero

====
